---------------------------- MODULE Spec2Model ----------------------------
(***************************************************************************)
(* RoExport: the script extraction of roexport/parser.py and the export of *)
(* its records by roexport/exporter.py.                                    *)
(*                                                                         *)
(* A document is the element tree xml.etree.ElementTree builds from a      *)
(* .rbxm/.rbxl file.  It is held as the sequence of its elements in        *)
(* document order; every element records its tag, the attributes the       *)
(* parser reads (class, referent, name), its text and its parent.          *)
(* Strings the program computes with (names, sources, paths) are sequences *)
(* of one-character strings; tags and the name attribute, which are only   *)
(* compared, are TLA+ strings.  Paths follow posixpath (separator "/").    *)
(***************************************************************************)
EXTENDS Naturals, Sequences, FiniteSets

(***************************************************************************)
(* Bounds of the model.                                                    *)
(***************************************************************************)
\* Elements of a structure document, the document element included.
MaxElements == 8
\* Property leaves of the script of a property document.
MaxLeaves == 3
\* Completed parse_file calls on the one parser instance.
MaxCalls == 2
\* Length of the script name handed to get_filename.
MaxNameLen == 3
\* Records in a sequence handed to export_scripts.
MaxScripts == 2
\* Completed export_file and export_scripts calls on the one exporter.
MaxExports == 1

(***************************************************************************)
(* Strings.                                                                *)
(***************************************************************************)
\* An attribute or text that is not there (Python's None).
Absent == <<"<absent>">>
\* A name attribute that is not there.
NoAttr == "<absent>"
Empty == <<>>

ScriptStr == <<"S", "c", "r", "i", "p", "t">>
LocalScriptStr == <<"L", "o", "c", "a", "l">> \o ScriptStr
ModuleScriptStr == <<"M", "o", "d", "u", "l", "e">> \o ScriptStr
FolderStr == <<"F", "o", "l", "d", "e", "r">>
ScriptClasses == {ScriptStr, LocalScriptStr, ModuleScriptStr}

Sep == "/"

\* str.isspace for one character.
IsSpace(c) == c \in {" ", "\t", "\n", "\r"}

\* str.isalnum for one character.
IsAlnum(c) ==
    c \in {"a", "b", "c", "d", "e", "f", "g", "h", "i", "j", "k", "l", "m",
           "n", "o", "p", "q", "r", "s", "t", "u", "v", "w", "x", "y", "z",
           "A", "B", "C", "D", "E", "F", "G", "H", "I", "J", "K", "L", "M",
           "N", "O", "P", "Q", "R", "S", "T", "U", "V", "W", "X", "Y", "Z",
           "0", "1", "2", "3", "4", "5", "6", "7", "8", "9"}

\* str.lower for one character, on the letters the class names use.
LowerChar(c) ==
    CASE c = "S" -> "s"
      [] c = "L" -> "l"
      [] c = "M" -> "m"
      [] c = "F" -> "f"
      [] c = "R" -> "r"
      [] OTHER -> c

Lower(s) == [i \in 1..Len(s) |-> LowerChar(s[i])]

RECURSIVE RStrip(_)
\* str.rstrip(): trailing whitespace removed.
RStrip(s) ==
    IF s # <<>> /\ IsSpace(s[Len(s)]) THEN RStrip(SubSeq(s, 1, Len(s) - 1))
    ELSE s

RECURSIVE LStrip(_)
LStrip(s) == IF s # <<>> /\ IsSpace(Head(s)) THEN LStrip(Tail(s)) ELSE s

\* str.strip().
Strip(s) == LStrip(RStrip(s))

\* `text or ""`.
OrEmpty(t) == IF t = Absent THEN Empty ELSE t

\* posixpath.join(a, b).
PathJoin(a, b) ==
    IF b # <<>> /\ Head(b) = Sep THEN b
    ELSE IF a = <<>> \/ a[Len(a)] = Sep THEN a \o b
    ELSE a \o <<Sep>> \o b

(***************************************************************************)
(* The element tree.                                                       *)
(***************************************************************************)
VARIABLES
    tree,       \* the decoded document: elements in document order
    heap,       \* the list objects created so far, by identity
    scripts,    \* self.scripts: the identity of the parser's current list
    returned,   \* identities of the lists parse_file has returned, in call order
    snapshot,   \* history: the content of each returned list when it was returned
    stack,      \* pending _parse_element calls, innermost (next) first
    pc,         \* "idle" between calls, "walking" inside parse_file
    visits,     \* history: the _parse_element calls completed in the current walk
    rec,        \* a RobloxScript handed to the projector
    out,        \* the last result of the projector or of get_script_count
    exporter,   \* the RobloxExporter: preserve_hierarchy and add_headers
    disk,       \* the file system: the directories made and the files written
    exported_files, \* the path list the last export call returned
    exported,   \* history: the record sequence the last export call processed
    exports     \* history: the export calls completed

exporterVars == <<exporter, disk, exported_files, exported, exports>>

vars ==
    <<tree, heap, scripts, returned, snapshot, stack, pc, visits, rec, out,
      exporterVars>>

Elem(tag, class, referent, name, text, parent) ==
    [tag |-> tag, class |-> class, referent |-> referent, name |-> name,
     text |-> text, parent |-> parent]

\* The <roblox> document element.
RootElem == Elem("roblox", Absent, Absent, NoAttr, Absent, 0)

Nodes(t) == 1..Len(t)

\* The elements of t in document order.
InOrder(t) == [i \in 1..Len(t) |-> i]

\* `for child in element`: the children, in document order.
Children(t, n) == SelectSeq(InOrder(t), LAMBDA m : t[m].parent = n)

RECURSIVE IsAncestor(_, _, _)
\* a is a proper ancestor of n.
IsAncestor(t, a, n) ==
    /\ n # 0
    /\ t[n].parent # 0
    /\ (t[n].parent = a \/ IsAncestor(t, a, t[n].parent))

\* element.findall('.//<tag>'): the proper descendants with that tag, in
\* document order.
FindAll(t, n, tag) ==
    SelectSeq(InOrder(t), LAMBDA m : t[m].tag = tag /\ IsAncestor(t, n, m))

(***************************************************************************)
(* Input documents.  Two families, both of the shape Roblox Studio writes  *)
(* (an Item holds its Properties group first, then its child Items):       *)
(* structure documents nest items of a few kinds under the root, up to     *)
(* MaxElements elements in all; property documents hold one script whose   *)
(* Properties group is any sequence of up to MaxLeaves property leaves.    *)
(***************************************************************************)
Leaf(tag, name, text) == [tag |-> tag, name |-> name, text |-> text]

NameLeaves == {Leaf("string", "Name", x) : x \in {Absent, <<"a">>}}

SourceLeaves ==
    {Leaf("ProtectedString", "Source", x) : x \in {Absent, <<" ">>, <<"x">>}}
        \cup {Leaf("string", "Source", <<" ", "y">>)}

Leaves == NameLeaves \cup SourceLeaves

ItemKind(class, referent, hasProps, leaves) ==
    [class |-> class, referent |-> referent, hasProps |-> hasProps,
     leaves |-> leaves]

ItemKinds ==
    { ItemKind(FolderStr, Absent, TRUE, <<Leaf("string", "Name", <<"a">>)>>),
      ItemKind(FolderStr, Absent, TRUE,
               <<Leaf("string", "Name", <<"/", "b">>)>>),
      ItemKind(ScriptStr, Absent, TRUE,
               <<Leaf("ProtectedString", "Source", <<"x">>)>>),
      ItemKind(ModuleScriptStr, Absent, TRUE,
               <<Leaf("string", "Name", Absent),
                 Leaf("string", "Source", <<" ", "y">>)>>),
      ItemKind(LocalScriptStr, <<"R", "1">>, FALSE, <<>>) }

\* The document t with one more Item, of kind k, as the last child of p.
AddItem(t, p, k) ==
    LET item == Len(t) + 1
        group == Len(t) + 2
    IN  t \o <<Elem("Item", k.class, k.referent, NoAttr, Absent, p)>>
          \o (IF k.hasProps
              THEN <<Elem("Properties", Absent, Absent, NoAttr, Absent, item)>>
                   \o [i \in 1..Len(k.leaves) |->
                         Elem(k.leaves[i].tag, Absent, Absent,
                              k.leaves[i].name, k.leaves[i].text, group)]
              ELSE <<>>)

\* The elements a further Item can be appended under: the root, the last
\* Item and the Items around it.
OpenItems(t) ==
    LET items == {m \in Nodes(t) : t[m].tag = "Item"}
        last == CHOOSE m \in items : \A x \in items : x <= m
    IN  IF items = {} THEN {1}
        ELSE {1, last} \cup {a \in items : IsAncestor(t, a, last)}

\* The elements an Item of kind k comes to.
ElementsOf(k) == IF k.hasProps THEN 2 + Len(k.leaves) ELSE 1

\* The kinds of Item the document t has room for.
KindsFitting(t) ==
    {k \in ItemKinds : Len(t) + ElementsOf(k) <= MaxElements}

\* The documents one more Item makes of the documents ds.
Grown(ds) ==
    UNION {{AddItem(t, p, k) : p \in OpenItems(t), k \in KindsFitting(t)} :
             t \in ds}

RECURSIVE StructureDocs(_, _)
\* The documents found, with all that grow out of the newest of them.
StructureDocs(found, newest) ==
    IF newest = {} THEN found
    ELSE LET more == Grown(newest)
         IN  StructureDocs(found \cup more, more)

StructureDocSet == StructureDocs({<<RootElem>>}, {<<RootElem>>})

LeafSeqs == UNION {[1..k -> Leaves] : k \in 0..MaxLeaves}

PropertyDocs ==
    {AddItem(<<RootElem>>, 1, ItemKind(c, Absent, TRUE, ls)) :
        c \in ScriptClasses, ls \in LeafSeqs}

InputTrees == StructureDocSet \cup PropertyDocs

(***************************************************************************)
(* RobloxFileParser.                                                       *)
(***************************************************************************)
\* The first of the elements ms whose name attribute is key, or 0.
RECURSIVE FirstNamed(_, _, _)
FirstNamed(t, ms, key) ==
    IF ms = <<>> THEN 0
    ELSE IF t[Head(ms)].name = key THEN Head(ms)
    ELSE FirstNamed(t, Tail(ms), key)

\* element.findall('.//string[@name="<key>"]').
FindAllStrings(t, n, key) ==
    SelectSeq(FindAll(t, n, "string"), LAMBDA m : t[m].name = key)

\* The loop over the Properties groups of _get_element_name: the text of the
\* first Name child of the first group that has one, or Absent when the loop
\* ends without returning.
RECURSIVE NameInGroups(_, _)
NameInGroups(t, groups) ==
    IF groups = <<>> THEN Absent
    ELSE LET hit == FirstNamed(t, Children(t, Head(groups)), "Name")
         IN  IF hit # 0 THEN OrEmpty(t[hit].text)
             ELSE NameInGroups(t, Tail(groups))

\* element.get('referent', element.get('class', '')).
ReferentOrClass(e) ==
    IF e.referent # Absent THEN e.referent ELSE OrEmpty(e.class)

\* _get_element_name(element).
GetElementName(t, n) ==
    LET grouped == NameInGroups(t, FindAll(t, n, "Properties"))
        flat == FindAllStrings(t, n, "Name")
    IN  IF grouped # Absent THEN grouped
        ELSE IF flat # <<>> THEN OrEmpty(t[Head(flat)].text)
        ELSE ReferentOrClass(t[n])

\* The loop over the Properties groups of _extract_script: every group that
\* has a Source child overwrites source with that child's text.
RECURSIVE SourceInGroups(_, _, _)
SourceInGroups(t, groups, source) ==
    IF groups = <<>> THEN source
    ELSE LET hit == FirstNamed(t, Children(t, Head(groups)), "Source")
         IN  SourceInGroups(t, Tail(groups),
                            IF hit # 0 THEN OrEmpty(t[hit].text) ELSE source)

\* _extract_script without its fallback: the nested lookup's answer stands.
FlatSourceSkipped(t, n, source) == source

\* "Also check direct string properties": the fallback of _extract_script.
FlatSource(t, n, source) ==
    LET flat == FindAllStrings(t, n, "Source")
    IN  IF source = Empty /\ flat # <<>> THEN OrEmpty(t[Head(flat)].text)
        ELSE source

\* The Source text _extract_script settles on.
FindSource(t, n) ==
    FlatSource(t, n, SourceInGroups(t, FindAll(t, n, "Properties"), Empty))

\* The name _extract_script gives the record.
ScriptName(name, script_type) ==
    IF name = Empty
    THEN <<"u", "n", "n", "a", "m", "e", "d", "_">> \o Lower(script_type)
    ELSE name

\* RobloxScript(name, source, script_type, parent_path).  node is history:
\* the element the record was made for (0 when made by hand).
RobloxScript(name, source, script_type, parent_path, node) ==
    [name |-> name, source |-> source, script_type |-> script_type,
     parent_path |-> parent_path, node |-> node]

\* The content test without the strip: `if source:`.
HasContentUnstripped(source) == source # Empty

\* Whether _extract_script returns a record for this source.
HasContent(source) == Strip(source) # Empty

\* _extract_script(element, script_type, parent_path): <<the record>>, or
\* <<>> for None.
ExtractScript(t, n, script_type, parent_path) ==
    LET name == ScriptName(GetElementName(t, n), script_type)
        source == FindSource(t, n)
    IN  IF HasContent(source)
        THEN <<RobloxScript(name, source, script_type, parent_path, n)>>
        ELSE <<>>

\* The path for children without the test of the class: scripts add their
\* name too.
ChildPathAnyClass(parent_path, name, class_name) ==
    IF name # Empty
    THEN (IF parent_path # Empty THEN PathJoin(parent_path, name) ELSE name)
    ELSE parent_path

\* "Build path for children" of _parse_element.
ChildPath(parent_path, name, class_name) ==
    IF name # Empty /\ class_name \notin ScriptClasses
    THEN (IF parent_path # Empty THEN PathJoin(parent_path, name) ELSE name)
    ELSE parent_path

\* The recursive calls with the children taken last to first.
PushChildrenReversed(t, n, path, pending) ==
    [i \in 1..Len(Children(t, n)) |->
        [node |-> Children(t, n)[Len(Children(t, n)) + 1 - i], path |-> path]]
      \o pending

\* The recursive calls of _parse_element, one per child and in the children's
\* order, ahead of the calls already pending.
PushChildren(t, n, path, pending) ==
    [i \in 1..Len(Children(t, n)) |->
        [node |-> Children(t, n)[i], path |-> path]] \o pending

\* The parser's one list emptied in place: `self.scripts.clear()`.
ClearedList(h, cur) == [heap |-> [h EXCEPT ![cur] = <<>>], scripts |-> cur]

\* The list a parse_file call collects into: a new list, `self.scripts = []`.
FreshList(h, cur) == [heap |-> Append(h, <<>>), scripts |-> Len(h) + 1]

NoRecord == RobloxScript(Empty, Empty, Empty, Empty, 0)

NoResult == [op |-> "none", value |-> Empty]

\* RobloxExporter(preserve_hierarchy, add_headers).
NewExporter(preserve_hierarchy, add_headers) ==
    [preserve_hierarchy |-> preserve_hierarchy, add_headers |-> add_headers]

\* A file system with nothing made or written yet.
EmptyDisk == [dirs |-> {}, files |-> {}]

Init ==
    /\ tree \in InputTrees
    /\ heap = << <<>> >>
    /\ scripts = 1
    /\ returned = <<>>
    /\ snapshot = <<>>
    /\ stack = <<>>
    /\ pc = "idle"
    /\ visits = <<>>
    /\ rec = NoRecord
    /\ out = NoResult
    /\ exporter = NewExporter(TRUE, TRUE)
    /\ disk = EmptyDisk
    /\ exported_files = <<>>
    /\ exported = <<>>
    /\ exports = 0

\* parse_file up to the first _parse_element call.
ParseFile ==
    /\ pc = "idle"
    /\ Len(returned) < MaxCalls
    /\ LET new == FreshList(heap, scripts)
       IN  /\ heap' = new.heap
           /\ scripts' = new.scripts
    /\ stack' = <<[node |-> 1, path |-> Empty]>>
    /\ visits' = <<>>
    /\ pc' = "walking"
    /\ UNCHANGED <<tree, returned, snapshot, rec, out, exporterVars>>

\* parse_file on a path that does not exist or does not end in .rbxm/.rbxl:
\* it raises before it touches the parser.
ParseFileRejected ==
    /\ pc = "idle"
    /\ UNCHANGED vars

\* One _parse_element call, up to its recursive calls.
ParseElement ==
    /\ pc = "walking"
    /\ stack # <<>>
    /\ LET n == Head(stack).node
           parent_path == Head(stack).path
           class_name == OrEmpty(tree[n].class)
           script == IF class_name \in ScriptClasses
                     THEN ExtractScript(tree, n, class_name, parent_path)
                     ELSE <<>>
           name == GetElementName(tree, n)
           current_path == ChildPath(parent_path, name, class_name)
       IN  /\ heap' = [heap EXCEPT ![scripts] = @ \o script]
           /\ stack' = PushChildren(tree, n, current_path, Tail(stack))
           /\ visits' = Append(visits, [node |-> n, parent_path |-> parent_path,
                                         name |-> name,
                                         current_path |-> current_path])
    /\ UNCHANGED <<tree, scripts, returned, snapshot, pc, rec, out,
                   exporterVars>>

\* parse_file returns self.scripts once the walk is over.
ParseReturn ==
    /\ pc = "walking"
    /\ stack = <<>>
    /\ returned' = Append(returned, scripts)
    /\ snapshot' = Append(snapshot, heap[scripts])
    /\ pc' = "idle"
    /\ UNCHANGED <<tree, heap, scripts, stack, visits, rec, out, exporterVars>>

RECURSIVE CountInto(_, _)
\* The loop of get_script_count: a record whose kind has an entry adds one to
\* it.
CountInto(list, counts) ==
    IF list = <<>> THEN counts
    ELSE CountInto(Tail(list),
                   IF Head(list).script_type \in DOMAIN counts
                   THEN [counts EXCEPT ![Head(list).script_type] = @ + 1]
                   ELSE counts)

\* The counts with no entry made ahead: only the kinds met get one.
GetScriptCountMet(list) ==
    CountInto(list, [c \in {list[i].script_type : i \in 1..Len(list)} |-> 0])

\* RobloxFileParser.get_script_count() on the list the parser holds.
GetScriptCount(list) == CountInto(list, [c \in ScriptClasses |-> 0])

\* get_script_count, called between parse_file calls.
CallGetScriptCount ==
    /\ pc = "idle"
    /\ out' = [op |-> "get_script_count", value |-> GetScriptCount(heap[scripts])]
    /\ UNCHANGED <<tree, heap, scripts, returned, snapshot, stack, pc, visits,
                   rec, exporterVars>>

Next == ParseFile \/ ParseFileRejected \/ ParseElement \/ ParseReturn

Spec == Init /\ [][Next]_vars

\* The parser with its count taken between the calls.
NextCount == Next \/ CallGetScriptCount

SpecCount == Init /\ [][NextCount]_vars

(***************************************************************************)
(* RobloxScript: the record projector.                                     *)
(***************************************************************************)
\* The characters get_filename keeps.
IsFilenameChar(c) == IsAlnum(c) \/ c \in {" ", "-", "_"}

\* clean_name without the rstrip.
CleanNameUntrimmed(name) == SelectSeq(name, IsFilenameChar)

\* clean_name of get_filename, before the "script" placeholder.
CleanName(name) == RStrip(SelectSeq(name, IsFilenameChar))

\* The extension get_filename adds.
Extension(script_type) ==
    IF script_type = ModuleScriptStr THEN <<".", "l", "u", "a">>
    ELSE IF script_type = LocalScriptStr
         THEN <<".", "c", "l", "i", "e", "n", "t", ".", "l", "u", "a">>
    ELSE <<".", "s", "e", "r", "v", "e", "r", ".", "l", "u", "a">>

\* The stem get_filename settles on.
FilenameStem(name) ==
    IF CleanName(name) = Empty THEN <<"s", "c", "r", "i", "p", "t">>
    ELSE CleanName(name)

\* RobloxScript.get_filename().
GetFilename(r) == FilenameStem(r.name) \o Extension(r.script_type)

\* RobloxScript.get_full_path().
GetFullPath(r) ==
    IF r.parent_path # Empty THEN PathJoin(r.parent_path, GetFilename(r))
    ELSE GetFilename(r)

\* The names and parent paths of the records the projector is tried on.
NameChars == {"a", "7", " ", "-", "_", "/", ".", "\t"}

ProjectorNames == UNION {[1..k -> NameChars] : k \in 0..MaxNameLen}

ProjectorPaths == {Empty, <<"a">>, <<"/", "b">>}

InitProjector ==
    /\ tree = <<RootElem>>
    /\ heap = << <<>> >>
    /\ scripts = 1
    /\ returned = <<>>
    /\ snapshot = <<>>
    /\ stack = <<>>
    /\ pc = "idle"
    /\ visits = <<>>
    /\ rec \in {RobloxScript(nm, <<"x">>, ty, pp, 0) :
                  nm \in ProjectorNames, ty \in ScriptClasses,
                  pp \in ProjectorPaths}
    /\ out = NoResult
    /\ exporter = NewExporter(TRUE, TRUE)
    /\ disk = EmptyDisk
    /\ exported_files = <<>>
    /\ exported = <<>>
    /\ exports = 0

CallGetFilename ==
    /\ out' = [op |-> "get_filename", value |-> GetFilename(rec)]
    /\ UNCHANGED <<tree, heap, scripts, returned, snapshot, stack, pc, visits,
                   rec, exporterVars>>

CallGetFullPath ==
    /\ out' = [op |-> "get_full_path", value |-> GetFullPath(rec)]
    /\ UNCHANGED <<tree, heap, scripts, returned, snapshot, stack, pc, visits,
                   rec, exporterVars>>

NextProjector == CallGetFilename \/ CallGetFullPath

SpecProjector == InitProjector /\ [][NextProjector]_vars

(***************************************************************************)
(* What the claims speak of, read off the document itself.                 *)
(***************************************************************************)
\* The records the current walk has collected.
Records == heap[scripts]

\* The records collected for element n.
RecordsOf(n) == {i \in 1..Len(Records) : Records[i].node = n}

\* The least member of a non-empty set of elements: the first in document
\* order.
First(S) == CHOOSE m \in S : \A x \in S : m <= x

\* The last in document order.
Last(S) == CHOOSE m \in S : \A x \in S : x <= m

IsScriptNode(n) == tree[n].class \in ScriptClasses

\* Items and the document element: the nodes of the object tree.
IsObjectNode(n) == tree[n].tag \in {"Item", "roblox"}

\* The entries called key in the node's own property bag: the children of
\* its own Properties groups.
OwnEntries(n, key) ==
    {m \in Nodes(tree) :
        /\ tree[m].name = key
        /\ tree[m].parent # 0
        /\ tree[tree[m].parent].tag = "Properties"
        /\ tree[tree[m].parent].parent = n}

\* The Properties groups beneath n, at any depth, that hold an entry called
\* key.
GroupsWith(n, key) ==
    {g \in Nodes(tree) :
        /\ tree[g].tag = "Properties"
        /\ IsAncestor(tree, n, g)
        /\ \E m \in Nodes(tree) : tree[m].parent = g /\ tree[m].name = key}

\* The string-typed leaves called key beneath n, at any depth.
StringLeaves(n, key) ==
    {m \in Nodes(tree) :
        tree[m].tag = "string" /\ tree[m].name = key /\ IsAncestor(tree, n, m)}

TextOf(m) == OrEmpty(tree[m].text)

\* C1 (as claimed): a script node whose own Source text is absent or blank
\* gets no record, whatever lies beneath it.
C1_NoRecordWithoutOwnSource ==
    \A i \in 1..Len(visits) :
        LET n == visits[i].node
        IN  (/\ IsScriptNode(n)
             /\ \A m \in OwnEntries(n, "Source") : Strip(TextOf(m)) = Empty)
            => RecordsOf(n) = {}

\* C2 (as claimed): when the Source entry of a script node's own Properties
\* group has text that is not blank, the node's record carries exactly that
\* text, whatever Source entries lie deeper.
C2_OwnSourceCarried ==
    \A i \in 1..Len(visits) :
        LET n == visits[i].node
            own == OwnEntries(n, "Source")
        IN  (/\ IsScriptNode(n)
             /\ own # {}
             /\ Strip(TextOf(First(own))) # Empty)
            => /\ Cardinality(RecordsOf(n)) = 1
               /\ \A r \in RecordsOf(n) :
                    Records[r].source = tree[First(own)].text

\* The Source entry the nested-properties lookup ends on: the first Source
\* child of the last group beneath n that has one.
DecidingEntry(n) ==
    LET g == Last(GroupsWith(n, "Source"))
    IN  First({m \in Nodes(tree) : tree[m].parent = g /\ tree[m].name = "Source"})

\* The nested-properties lookup of script node n ends on a Source entry with
\* no text.
EndsOnAbsentText(n) ==
    /\ IsScriptNode(n)
    /\ GroupsWith(n, "Source") # {}
    /\ tree[DecidingEntry(n)].text = Absent

\* The first string-typed Source leaf beneath n has text that is not blank.
FlatLookupHasContent(n) ==
    /\ StringLeaves(n, "Source") # {}
    /\ Strip(TextOf(First(StringLeaves(n, "Source")))) # Empty

\* C3 (as claimed): when the nested-properties lookup ends on a Source entry
\* with no text, the flat lookup is not consulted and the node gets no record.
C3_NoFallThrough ==
    \A i \in 1..Len(visits) :
        EndsOnAbsentText(visits[i].node) => RecordsOf(visits[i].node) = {}

\* C3 (amended): when the nested-properties lookup ends on a Source entry
\* with no text, the flat lookup is consulted as if nothing had been found:
\* the node gets a record exactly when the first string-typed Source leaf
\* beneath it has text that is not blank, and the record carries that text.
C3_FallThrough ==
    \A i \in 1..Len(visits) :
        LET n == visits[i].node
        IN  EndsOnAbsentText(n) =>
              IF FlatLookupHasContent(n)
              THEN /\ Cardinality(RecordsOf(n)) = 1
                   /\ \A r \in RecordsOf(n) :
                        Records[r].source =
                            tree[First(StringLeaves(n, "Source"))].text
              ELSE RecordsOf(n) = {}

\* C3 witness: a script whose nested lookup ended on an absent text was
\* visited and got its record from the flat lookup.
C3_Witness ==
    \E i \in 1..Len(visits) :
        /\ EndsOnAbsentText(visits[i].node)
        /\ FlatLookupHasContent(visits[i].node)
        /\ RecordsOf(visits[i].node) # {}

\* The name the claim gives node n: the Name entry of its own property bag,
\* else its referent, else its class.
OwnName(n) ==
    IF OwnEntries(n, "Name") # {} THEN TextOf(First(OwnEntries(n, "Name")))
    ELSE IF tree[n].referent # Absent THEN tree[n].referent
    ELSE OrEmpty(tree[n].class)

\* C4 (as claimed): the resolved name of a node is the Name of its own
\* property bag, else its referent, else its class; never a descendant's Name.
C4_NameFromOwnBag ==
    \A i \in 1..Len(visits) :
        IsObjectNode(visits[i].node) => visits[i].name = OwnName(visits[i].node)

\* The path the non-script elements from the root down to n spell: each
\* element that is not a script and has a resolved name adds that name, a
\* script adds nothing.  For 0, above the root, the path is empty.
RECURSIVE ContainerPath(_)
ContainerPath(n) ==
    IF n = 0 THEN Empty
    ELSE LET above == ContainerPath(tree[n].parent)
             name == GetElementName(tree, n)
         IN  IF IsScriptNode(n) \/ name = Empty THEN above
             ELSE IF above = Empty THEN name
             ELSE PathJoin(above, name)

\* C5: the parent path of every record is spelled by the non-script elements
\* above its node alone; a script adds no segment, so what is nested right
\* beneath a script is walked with the path the script itself received.
C5_ScriptsAddNoSegment ==
    /\ \A i \in 1..Len(Records) :
         Records[i].parent_path = ContainerPath(tree[Records[i].node].parent)
    /\ \A i, j \in 1..Len(visits) :
         (/\ IsScriptNode(visits[i].node)
          /\ tree[visits[j].node].parent = visits[i].node)
         => visits[j].parent_path = visits[i].parent_path

\* C5 witness: a script right beneath another script, both with a record and
\* both under a named container.
C5_Witness ==
    \E i, j \in 1..Len(Records) :
        /\ tree[Records[j].node].parent = Records[i].node
        /\ Records[i].parent_path # Empty
        /\ Records[j].parent_path = Records[i].parent_path

RECURSIVE SplitFrom(_, _, _)
\* The pieces of s between separators, after the pieces done and the piece
\* cur under way.
SplitFrom(s, done, cur) ==
    IF s = <<>> THEN Append(done, cur)
    ELSE IF Head(s) = Sep THEN SplitFrom(Tail(s), Append(done, cur), <<>>)
    ELSE SplitFrom(Tail(s), done, Append(cur, Head(s)))

\* The segments of a path; the empty path has none.
Segments(p) == IF p = Empty THEN <<>> ELSE SplitFrom(p, <<>>, <<>>)

\* C6 (as claimed): a non-script element with a resolved name hands its
\* children the path it received plus its name as one new segment, whatever
\* the name's text; any other element hands down the path it received.
C6_OneSegmentAppended ==
    \A i \in 1..Len(visits) :
        LET v == visits[i]
        IN  IF ~IsScriptNode(v.node) /\ v.name # Empty
            THEN Segments(v.current_path)
                    = Append(Segments(v.parent_path), v.name)
            ELSE v.current_path = v.parent_path

RECURSIVE Preorder(_)
RECURSIVE PreorderAll(_)
\* The elements of the subtree of n: n, then the subtrees of its children in
\* their order.
Preorder(n) == <<n>> \o PreorderAll(Children(tree, n))
PreorderAll(ns) ==
    IF ns = <<>> THEN <<>> ELSE Preorder(Head(ns)) \o PreorderAll(Tail(ns))

\* The walk is over: nothing is pending.
WalkDone == stack = <<>> /\ (pc = "walking" \/ returned # <<>>)

\* C7: elements are visited in document order, every one of them by the end
\* of the walk, and the records stand in the document order of their nodes.
C7_DocumentOrder ==
    LET order == Preorder(1)
        position(n) == CHOOSE k \in 1..Len(order) : order[k] = n
    IN  /\ Len(visits) <= Len(order)
        /\ \A i \in 1..Len(visits) : visits[i].node = order[i]
        /\ WalkDone => Len(visits) = Len(tree)
        /\ \A i \in 1..Len(Records) :
             \E k \in 1..Len(visits) : visits[k].node = Records[i].node
        /\ \A i, j \in 1..Len(Records) :
             i < j => position(Records[i].node) < position(Records[j].node)

\* C7 witness: a finished walk with a record whose parent element gave no
\* record and a later record whose parent element gave the earlier one.
C7_Witness ==
    /\ pc = "idle"
    /\ returned # <<>>
    /\ \E i, j \in 1..Len(Records) :
         /\ i < j
         /\ RecordsOf(tree[Records[i].node].parent) = {}
         /\ tree[Records[j].node].parent = Records[i].node

\* The placeholder name of each kind.
UnnamedOf(script_type) ==
    IF script_type = ScriptStr
    THEN <<"u", "n", "n", "a", "m", "e", "d", "_", "s", "c", "r", "i", "p", "t">>
    ELSE IF script_type = LocalScriptStr
    THEN <<"u", "n", "n", "a", "m", "e", "d", "_", "l", "o", "c", "a", "l",
           "s", "c", "r", "i", "p", "t">>
    ELSE <<"u", "n", "n", "a", "m", "e", "d", "_", "m", "o", "d", "u", "l", "e",
           "s", "c", "r", "i", "p", "t">>

\* Some character of s is not whitespace.
NotBlank(s) == \E k \in 1..Len(s) : ~IsSpace(s[k])

\* C8: every record of every list has a source that is not blank, one of the
\* three kinds, and a name that is not empty; a node whose resolved name is
\* empty is named "unnamed_" plus its kind in lower case.
C8_RecordInvariants ==
    \A l \in 1..Len(heap) : \A i \in 1..Len(heap[l]) :
        LET r == heap[l][i]
        IN  /\ NotBlank(r.source)
            /\ r.script_type \in {ScriptStr, LocalScriptStr, ModuleScriptStr}
            /\ r.script_type = tree[r.node].class
            /\ r.name # Empty
            /\ r.name = (IF GetElementName(tree, r.node) = Empty
                         THEN UnnamedOf(r.script_type)
                         ELSE GetElementName(tree, r.node))

\* C8 witness: a record under the placeholder name.
C8_Witness ==
    \E i \in 1..Len(Records) :
        /\ GetElementName(tree, Records[i].node) = Empty
        /\ Records[i].name = UnnamedOf(ModuleScriptStr)

\* C9: the lists parse_file has returned for the one document are equal in
\* content and order, and each still holds what it held when it was returned.
C9_Idempotent ==
    /\ \A i \in 1..Len(returned) : heap[returned[i]] = snapshot[i]
    /\ \A i, j \in 1..Len(snapshot) : snapshot[i] = snapshot[j]

\* C9 witness: two calls have returned, each its own list, with records.
C9_Witness ==
    /\ Len(returned) >= 2
    /\ returned[1] # returned[2]
    /\ Len(snapshot[1]) >= 2
    /\ heap[returned[2]] = snapshot[1]

RECURSIVE SeqOfSet(_)
\* The members of a finite set of numbers, ascending.
SeqOfSet(S) ==
    IF S = {} THEN <<>>
    ELSE LET m == CHOOSE x \in S : \A y \in S : x <= y
         IN <<m>> \o SeqOfSet(S \ {m})

\* The characters of the name that get_filename keeps, in their order.
KeptChars(name) ==
    LET keep == {k \in 1..Len(name) :
                    \/ IsAlnum(name[k])
                    \/ name[k] = " " \/ name[k] = "-" \/ name[k] = "_"}
        order == SeqOfSet(keep)
    IN  [k \in 1..Len(order) |-> name[order[k]]]

\* s without its trailing whitespace: the longest prefix that does not end in
\* whitespace.
Trimmed(s) ==
    LET ends == {k \in 0..Len(s) : k = 0 \/ ~IsSpace(s[k])}
    IN  SubSeq(s, 1, Last(ends))

\* The stem the claim gives a name.
ClaimedStem(name) ==
    IF Trimmed(KeptChars(name)) = <<>> THEN <<"s", "c", "r", "i", "p", "t">>
    ELSE Trimmed(KeptChars(name))

\* The extension the claim gives a kind.
ClaimedExtension(script_type) ==
    CASE script_type = ModuleScriptStr -> <<".", "l", "u", "a">>
      [] script_type = LocalScriptStr ->
            <<".", "c", "l", "i", "e", "n", "t", ".", "l", "u", "a">>
      [] script_type = ScriptStr ->
            <<".", "s", "e", "r", "v", "e", "r", ".", "l", "u", "a">>

\* C10: get_filename gives the kept characters of the name, trimmed at the
\* end, or "script" when none are left, followed by the extension of the kind;
\* the stem is not empty and the filename holds no path separator.
C10_Filename ==
    out.op = "get_filename" =>
        /\ out.value = ClaimedStem(rec.name) \o ClaimedExtension(rec.script_type)
        /\ Len(out.value) > Len(ClaimedExtension(rec.script_type))
        /\ \A k \in 1..Len(out.value) : out.value[k] # Sep

\* C10 witness: a name with a separator, a dropped character and trailing
\* whitespace went through get_filename.
C10_Witness ==
    /\ out.op = "get_filename"
    /\ rec.name = <<"/", "a", " ">>
    /\ rec.script_type = LocalScriptStr
    /\ out.value = <<"a", ".", "c", "l", "i", "e", "n", "t", ".", "l", "u", "a">>

\* The records of the kind c among the records the parser holds.
OfKind(c) == {i \in 1..Len(Records) : Records[i].script_type = c}

\* C11: get_script_count returns exactly three entries, one each for Script,
\* LocalScript and ModuleScript, a kind without records included with 0; each
\* entry is the number of records of its kind and the three add up to the
\* number of records the parser holds, after any number of parse_file calls.
C11_CountByKind ==
    [][CallGetScriptCount =>
         LET counts == out'.value
         IN  /\ DOMAIN counts = {ScriptStr, LocalScriptStr, ModuleScriptStr}
             /\ Cardinality(DOMAIN counts) = 3
             /\ \A c \in DOMAIN counts : counts[c] = Cardinality(OfKind(c))
             /\ counts[ScriptStr] + counts[LocalScriptStr]
                    + counts[ModuleScriptStr] = Len(Records)]_vars

\* C11 witness: after two parse_file calls the counts were taken of a list
\* with records of two kinds and none of the third.
C11_Witness ==
    /\ out.op = "get_script_count"
    /\ Len(returned) = 2
    /\ pc = "idle"
    /\ out.value[LocalScriptStr] = 0
    /\ out.value[ScriptStr] >= 1
    /\ out.value[ModuleScriptStr] >= 1
    /\ Len(Records) >= 2

(***************************************************************************)
(* RobloxExporter.  The file system is the set of directories made and the *)
(* set of files written, each at the place its path leads to: the names    *)
(* from the working directory on, or from the root after RootMark, with "" *)
(* and "." passed over and ".." taken upward.  The process may make        *)
(* directories and write files wherever a path leads.                      *)
(***************************************************************************)
\* output_dir of the export calls.
OutputDir == <<"o", "u", "t">>

RootMark == <<Sep>>
DotDot == <<".", ".">>

\* path.split("/").
Components(path) == SplitFrom(path, <<>>, <<>>)

\* The place one component further on from the place at.
StepInto(at, comp) ==
    IF comp = Empty \/ comp = <<".">> THEN at
    ELSE IF comp # DotDot THEN Append(at, comp)
    ELSE IF at = <<RootMark>> THEN at
    ELSE IF at = <<>> \/ at[Len(at)] = DotDot THEN Append(at, comp)
    ELSE SubSeq(at, 1, Len(at) - 1)

RECURSIVE Resolve(_, _)
Resolve(at, comps) ==
    IF comps = <<>> THEN at
    ELSE Resolve(StepInto(at, Head(comps)), Tail(comps))

\* Where resolution of a path starts: the root or the working directory.
StartOf(path) ==
    IF path # Empty /\ Head(path) = Sep THEN <<RootMark>> ELSE <<>>

\* The place a path leads to.
PlaceOf(path) == Resolve(StartOf(path), Components(path))

IsFile(d, at) == \E f \in d.files : f.at = at

\* The directories that are there: those made, the working directory, the
\* root and what lies above the working directory.
IsDir(d, at) ==
    \/ at \in d.dirs
    \/ at = <<RootMark>>
    \/ \A k \in 1..Len(at) : at[k] = DotDot

RECURSIVE MakeDirsFrom(_, _, _)
\* os.makedirs(path, exist_ok=True) from the place at on: every directory on
\* the way is made; it raises where a file is in the way.
MakeDirsFrom(d, at, comps) ==
    IF comps = <<>> THEN [ok |-> TRUE, disk |-> d]
    ELSE LET next == StepInto(at, Head(comps))
         IN  IF IsFile(d, next) THEN [ok |-> FALSE, disk |-> d]
             ELSE MakeDirsFrom(IF IsDir(d, next) THEN d
                               ELSE [d EXCEPT !.dirs = @ \cup {next}],
                               next, Tail(comps))

MakeDirs(d, path) == MakeDirsFrom(d, StartOf(path), Components(path))

RECURSIVE RStripSep(_)
RStripSep(s) ==
    IF s # <<>> /\ s[Len(s)] = Sep THEN RStripSep(SubSeq(s, 1, Len(s) - 1))
    ELSE s

\* posixpath.dirname(path).
DirName(path) ==
    LET seps == {k \in 1..Len(path) : path[k] = Sep}
        head == IF seps = {} THEN Empty ELSE SubSeq(path, 1, Last(seps))
    IN  IF head # Empty /\ \E k \in 1..Len(head) : head[k] # Sep
        THEN RStripSep(head)
        ELSE head

\* open(path, 'x') and write: a file that is there is left as it is.
WriteFileNew(d, path, content) ==
    LET at == PlaceOf(path)
    IN  IF IsDir(d, PlaceOf(DirName(path))) /\ ~IsDir(d, at) /\ ~IsFile(d, at)
        THEN [ok |-> TRUE,
              disk |-> [d EXCEPT !.files =
                          @ \cup {[at |-> at, content |-> content]}]]
        ELSE [ok |-> FALSE, disk |-> d]

\* open(path, 'w') and write: the file is made or emptied and then holds the
\* content; it raises when the path leads to a directory or its directory is
\* not there.
WriteFile(d, path, content) ==
    LET at == PlaceOf(path)
    IN  IF IsDir(d, PlaceOf(DirName(path))) /\ ~IsDir(d, at)
        THEN [ok |-> TRUE,
              disk |-> [d EXCEPT !.files =
                          {f \in @ : f.at # at}
                             \cup {[at |-> at, content |-> content]}]]
        ELSE [ok |-> FALSE, disk |-> d]

RECURSIVE JoinLines(_)
\* '\n'.join(parts).
JoinLines(parts) ==
    IF parts = <<>> THEN Empty
    ELSE IF Len(parts) = 1 THEN Head(parts)
    ELSE Head(parts) \o <<"\n">> \o JoinLines(Tail(parts))

\* "-- " + "="*50.
HeaderRule == <<"-", "-", " ">> \o [k \in 1..50 |-> "="]

\* _generate_header(script).
GenerateHeader(r) ==
    JoinLines(
        <<HeaderRule,
          <<"-", "-", " ", "S", "c", "r", "i", "p", "t", " ", "N", "a", "m", "e", ":", " ">> \o r.name,
          <<"-", "-", " ", "S", "c", "r", "i", "p", "t", " ", "T", "y", "p", "e", ":", " ">> \o r.script_type>>
        \o (IF r.parent_path # Empty
            THEN <<<<"-", "-", " ", "P", "a", "r", "e", "n", "t", " ", "P", "a", "t", "h", ":", " ">> \o r.parent_path>>
            ELSE <<>>)
        \o <<<<"-", "-", " ", "E", "x", "p", "o", "r", "t", "e", "d", " ", "b", "y", " ", "R", "o", "E", "x", "p", "o", "r", "t">>,
             HeaderRule,
             Empty>>)

\* _prepare_content(script).
PrepareContent(ex, r) ==
    JoinLines((IF ex.add_headers THEN <<GenerateHeader(r)>> ELSE <<>>)
              \o <<r.source>>)

\* The file_path _export_script settles on.
FilePath(ex, r) ==
    IF ex.preserve_hierarchy THEN PathJoin(OutputDir, GetFullPath(r))
    ELSE PathJoin(OutputDir, GetFilename(r))

\* _export_script(script, output_dir): the path written, or Absent for None
\* when something raised, with the file system as it is left.
ExportScript(ex, d, r) ==
    LET file_path == FilePath(ex, r)
        dir_path == DirName(file_path)
        made == IF ex.preserve_hierarchy /\ dir_path # Empty
                THEN MakeDirs(d, dir_path)
                ELSE [ok |-> TRUE, disk |-> d]
        written == WriteFile(made.disk, file_path, PrepareContent(ex, r))
    IN  IF made.ok /\ written.ok
        THEN [path |-> file_path, disk |-> written.disk]
        ELSE [path |-> Absent, disk |-> made.disk]

RECURSIVE ExportLoop(_, _, _, _)
\* `for script in scripts`: every record is exported in its turn and every
\* path that comes back is appended.
ExportLoop(ex, d, list, exported_paths) ==
    IF list = <<>> THEN [paths |-> exported_paths, disk |-> d]
    ELSE LET done == ExportScript(ex, d, Head(list))
         IN  ExportLoop(ex, done.disk, Tail(list),
                        IF done.path # Absent
                        THEN Append(exported_paths, done.path)
                        ELSE exported_paths)

RECURSIVE WalkAll(_, _, _)
\* The whole walk of parse_file: the _parse_element calls pending, the next
\* first, and the records collected so far.
WalkAll(t, pending, collected) ==
    IF pending = <<>> THEN collected
    ELSE LET n == Head(pending).node
             parent_path == Head(pending).path
             class_name == OrEmpty(t[n].class)
             script == IF class_name \in ScriptClasses
                       THEN ExtractScript(t, n, class_name, parent_path)
                       ELSE <<>>
             current_path ==
                 ChildPath(parent_path, GetElementName(t, n), class_name)
         IN  WalkAll(t, PushChildren(t, n, current_path, Tail(pending)),
                     collected \o script)

\* The records hand-made for export_scripts: two with one full path, one more
\* with their filename in a directory, one elsewhere and one whose directory
\* has the path of that one.
ExportRecords ==
    { RobloxScript(<<"a">>, <<"x">>, ScriptStr, Empty, 0),
      RobloxScript(<<"a", ".">>, <<"y">>, ScriptStr, Empty, 0),
      RobloxScript(<<"a">>, <<"y">>, ScriptStr, <<"p">>, 0),
      RobloxScript(<<"b">>, <<"x">>, ModuleScriptStr, Empty, 0),
      RobloxScript(<<"c">>, <<"x">>, ScriptStr, <<"b", ".", "l", "u", "a">>, 0) }

ScriptLists == UNION {[1..k -> ExportRecords] : k \in 0..MaxScripts}

\* A script named "a" with the given source.
NamedScript(source) ==
    ItemKind(ScriptStr, Absent, TRUE,
             <<Leaf("string", "Name", <<"a">>),
               Leaf("ProtectedString", "Source", source)>>)

NamedFolder(name) ==
    ItemKind(FolderStr, Absent, TRUE, <<Leaf("string", "Name", name)>>)

\* The names of the folder of the one-folder documents.
FolderNames == {<<"q">>, DotDot, <<"/", "b">>}

\* The documents export_file is tried on: no script; two scripts of one name
\* side by side; two of one name, one of them in a folder; one script in a
\* folder of each name.
ExportTrees ==
    { <<RootElem>>,
      AddItem(AddItem(<<RootElem>>, 1, NamedScript(<<"x">>)),
              1, NamedScript(<<"y">>)),
      AddItem(AddItem(AddItem(<<RootElem>>, 1, NamedFolder(<<"p">>)),
                      2, NamedScript(<<"x">>)),
              1, NamedScript(<<"y">>)) }
      \cup {AddItem(AddItem(<<RootElem>>, 1, NamedFolder(nm)),
                    2, NamedScript(<<"x">>)) : nm \in FolderNames}

InitExporter ==
    /\ tree = <<RootElem>>
    /\ heap = << <<>> >>
    /\ scripts = 1
    /\ returned = <<>>
    /\ snapshot = <<>>
    /\ stack = <<>>
    /\ pc = "idle"
    /\ visits = <<>>
    /\ rec = NoRecord
    /\ out = NoResult
    /\ exporter \in {NewExporter(h, a) : h \in BOOLEAN, a \in BOOLEAN}
    /\ disk = EmptyDisk
    /\ exported_files = <<>>
    /\ exported = <<>>
    /\ exports = 0

\* export_scripts(scripts, output_dir).  makedirs raises only when a file is
\* at the output directory, and no file is ever written there.
ExportScripts ==
    /\ pc = "idle"
    /\ exports < MaxExports
    /\ \E list \in ScriptLists :
         LET made == MakeDirs(disk, OutputDir)
             done == ExportLoop(exporter, made.disk, list, <<>>)
         IN  /\ made.ok
             /\ disk' = done.disk
             /\ exported_files' = done.paths
             /\ exported' = list
    /\ exports' = exports + 1
    /\ UNCHANGED <<tree, heap, scripts, returned, snapshot, stack, pc, visits,
                   rec, out, exporter>>

\* export_file(input_path, output_dir): parse_file on the document at
\* input_path, then the export of the list it returned.
ExportFile ==
    /\ pc = "idle"
    /\ exports < MaxExports
    /\ \E t \in ExportTrees :
         LET new == FreshList(heap, scripts)
             list == WalkAll(t, <<[node |-> 1, path |-> Empty]>>, <<>>)
             made == MakeDirs(disk, OutputDir)
             done == ExportLoop(exporter, made.disk, list, <<>>)
         IN  /\ tree' = t
             /\ heap' = [new.heap EXCEPT ![new.scripts] = list]
             /\ scripts' = new.scripts
             /\ returned' = Append(returned, new.scripts)
             /\ snapshot' = Append(snapshot, list)
             /\ exported' = list
             /\ IF list = <<>>
                THEN /\ disk' = disk
                     /\ exported_files' = <<>>
                ELSE /\ made.ok
                     /\ disk' = done.disk
                     /\ exported_files' = done.paths
    /\ visits' = <<>>
    /\ exports' = exports + 1
    /\ UNCHANGED <<stack, pc, rec, out, exporter>>

NextExporter == ExportScripts \/ ExportFile

SpecExporter == InitExporter /\ [][NextExporter]_vars

(***************************************************************************)
(* What the claims speak of in an export.                                  *)
(***************************************************************************)
\* What a record is filed under: its full path when the hierarchy is kept,
\* its filename when it is not.
OutputKey(r) ==
    IF exporter.preserve_hierarchy THEN GetFullPath(r) ELSE GetFilename(r)

\* The place of the file of record i of the sequence exported.
TargetOf(i) == PlaceOf(PathJoin(OutputDir, OutputKey(exported[i])))

\* The records of the sequence exported whose file was written.
WrittenRecords ==
    {i \in 1..Len(exported) :
        \E k \in 1..Len(exported_files) : PlaceOf(exported_files[k]) = TargetOf(i)}

\* The last record of the sequence filed where record i is.
LastLike(i) == Last({j \in 1..Len(exported) : TargetOf(j) = TargetOf(i)})

\* The files at a place.
FilesAt(at) == {f \in disk.files : f.at = at}

\* C12: an export neither drops nor merges records filed under one path: the
\* path list returned has one entry per record written, in the order of the
\* sequence, and the file at each path holds the content prepared from the
\* last record of the sequence filed under it.
C12_LaterOneWins ==
    LET order == SeqOfSet(WrittenRecords)
    IN  /\ Len(exported_files) = Len(order)
        /\ \A k \in 1..Len(order) :
             exported_files[k]
                = PathJoin(OutputDir, OutputKey(exported[order[k]]))
        /\ \A i \in WrittenRecords :
             /\ Cardinality(FilesAt(TargetOf(i))) = 1
             /\ \A f \in FilesAt(TargetOf(i)) :
                  f.content = PrepareContent(exporter, exported[LastLike(i)])

\* C12 witness: export_file, keeping the hierarchy, wrote two records of the
\* walk with different sources to one path; two paths came back and the one
\* file holds the content of the second.
C12_Witness ==
    /\ exporter.preserve_hierarchy
    /\ Len(exported) = 2
    /\ exported[1].node # 0
    /\ exported[1].source # exported[2].source
    /\ Len(exported_files) = 2
    /\ exported_files[1] = exported_files[2]
    /\ Cardinality(disk.files) = 1
    /\ \A f \in disk.files : f.content = PrepareContent(exporter, exported[2])

\* The place at lies beneath the output directory.
Inside(at) ==
    LET top == PlaceOf(OutputDir)
    IN  Len(at) > Len(top) /\ SubSeq(at, 1, Len(top)) = top

\* C13 (as claimed): every file written for a record of the walk lies beneath
\* the output directory, whatever the names of the containers.
C13_WritesStayInside ==
    (\A i \in 1..Len(exported) : exported[i].node # 0) =>
        /\ \A k \in 1..Len(exported_files) : Inside(PlaceOf(exported_files[k]))
        /\ \A f \in disk.files : Inside(f.at)

==========================================================================
